---- MODULE Spec2Model ----
(***************************************************************************)
(* Model of the AIOps multi-agent coordinator.                             *)
(*                                                                         *)
(*   - BaseAgent (src/src/agents/base.py): the action ledger and the       *)
(*     three invocation counters of every agent, written by record_action, *)
(*     invoke, ainvoke and reset_state.                                    *)
(*   - AIOpsSwarm (src/src/workflows/swarm_coordinator.py): run and        *)
(*     run_async, which hand the task to the Swarm object built over the   *)
(*     agents' inner agents and wrap whatever comes back, a value or an    *)
(*     exception, into a SwarmResult.                                      *)
(*   - The handoff loop itself is executed by the Swarm object of the host *)
(*     SDK, whose code is not part of the source tree; it is modelled from *)
(*     section 4.3 of the specification (the Swarm... definitions).        *)
(***************************************************************************)
EXTENDS Integers, Sequences, FiniteSets, TLC

\* ------------------------------------------------------------------------
\* Bounds of the model
\* ------------------------------------------------------------------------

\* Largest number of ledger entries, over all agents, when the agents are
\* used on their own.
MaxActions == 3

\* Largest number of ledger entries, over all agents, made by direct calls
\* around the runs of a coordinator.
MaxDirect == 1

\* Largest number of recorded calls of an operation on one agent.
MaxCalls == 3

\* Largest number of Actions recorded by the agents of a unit before their
\* ledgers are merged, and the latest reading of the clock.
MaxRecorded == 3

MaxClock == 2

\* Budgets given to the constructor are drawn from 1..Max...
MaxIterations == 2

MaxHandoffs == 2

MaxTimeout == 2

\* The per-step budget is drawn from 1..MaxNodeTimeout.
MaxNodeTimeout == 1

\* ------------------------------------------------------------------------
\* Roster and names
\* ------------------------------------------------------------------------

None == "None"

\* The three agents AIOpsSwarm.__init__ builds, in the order _create_swarm
\* lists their inner agents.
Roster == <<"datadog", "coding", "servicenow">>

Agents == {Roster[i] : i \in 1..Len(Roster)}

\* BaseAgent.agent_name: the configured name by which an agent is addressed.
AgentName(a) == a

\* The literal labels _get_agents_used and _generate_summary write.
Label(a) ==
    CASE a = "datadog" -> "DataDog Agent"
      [] a = "coding" -> "Coding Agent"
      [] a = "servicenow" -> "ServiceNow Agent"

\* Names a caller or a reasoning step may utter: the roster's and a stranger.
UnknownName == "nobody"

Names == {AgentName(a) : a \in Agents} \cup {UnknownName}

\* Task texts: one with a keyword of run's start policy, one without.
Tasks == {"analyze errors", "say hello"}

\* The text a reasoning step of capability a answers with.
ResponseOf(a) == <<"answer of", a>>

\* str(e) of the failures a reasoning backend may raise; an exception
\* constructed without arguments has the empty string form.
FailureMessages == {"", "backend unreachable"}

VARIABLES
    state,              \* agent -> AgentState (ledger and counters)
    max_handoffs,       \* AIOpsSwarm._max_handoffs
    max_iterations,     \* AIOpsSwarm._max_iterations
    execution_timeout,  \* AIOpsSwarm._execution_timeout
    node_timeout,       \* AIOpsSwarm._node_timeout
    pc,                 \* position of the run call: "idle" (none made),
                        \* "running", "done" (it returned result),
                        \* "escaped" (it raised)
    mode,               \* "sync" (run) | "async" (run_async)
    shape,              \* run_async: the shape of the events of the stream
    ctx,                \* Task Context of the Swarm execution in progress
    output,             \* run_async: text chunks accumulated so far
    swarm_calls,        \* times the Swarm was invoked by the current run call
    raised,             \* the exception the Swarm call raised in this run, or NoExc
    result,             \* the SwarmResult returned by the last finished run
    last_op,            \* the operation performed last and the agent it was on
    twin,               \* a second coordinator with the same roster and
                        \* budgets, run side by side with the first
    earlier,            \* what was done on the coordinator since it was
                        \* built or reset, before the current run call
    call,               \* the last invoke / ainvoke call on an agent: what
                        \* the inner agent did and what the caller got
    built,              \* what the constructors set up for good: every
                        \* agent's id, name, tools, system prompt and inner
                        \* agent, and the roster handed to the Swarm
    batch,              \* ProactiveWorkflow: the processor's agents and the
                        \* units of work of the worker pool
    pipe,               \* the pipeline in progress: analyze_and_report of
                        \* the orchestrator or execute of the daily workflow
    ops,                \* ServiceNowAgent and S3Agent called directly: their
                        \* ledgers and the outcome of the last call
    journal             \* the timestamped ledgers of the agents of a unit and
                        \* the merged list last asked for

vars == <<state, max_handoffs, max_iterations, execution_timeout, node_timeout,
          pc, mode, shape, ctx, output, swarm_calls, raised, result, last_op,
          twin, earlier, call, built, batch, pipe, ops, journal>>

config == <<max_handoffs, max_iterations, execution_timeout, node_timeout>>

\* The workflows built around the agents.
workflows == <<batch, pipe, ops, journal>>

\* What lies beside the one coordinator and its agents.
beside == <<twin, earlier, workflows>>

\* The one coordinator and its agents.
coordinator ==
    <<state, config, pc, mode, shape, ctx, output, swarm_calls, raised, result,
      last_op, call, built>>

\* A value of last_op.
Op(op, a) == [op |-> op, agent |-> a]

\* ------------------------------------------------------------------------
\* BaseAgent: ledger and counters
\* ------------------------------------------------------------------------

\* AgentAction, restricted to the fields the control flow depends on.
AgentAction(action_type, success, error_message) ==
    [action_type |-> action_type, success |-> success,
     error_message |-> error_message]

\* AgentState(): the state a new or reset agent has.
AgentState ==
    [action_history |-> <<>>,
     total_invocations |-> 0,
     successful_invocations |-> 0,
     failed_invocations |-> 0]

\* Mutant: the failure branch forgets its counter.
RecordActionSkipsFailed(st, action_type, success, error_message) ==
    [action_history |->
         Append(st.action_history, AgentAction(action_type, success, error_message)),
     total_invocations |-> st.total_invocations + 1,
     successful_invocations |->
         IF success THEN st.successful_invocations + 1
         ELSE st.successful_invocations,
     failed_invocations |-> st.failed_invocations]

\* Mutant: the ledger keeps the two latest entries only.
RecordActionPrunes(st, action_type, success, error_message) ==
    [action_history |->
         IF Len(st.action_history) >= 2
         THEN Append(Tail(st.action_history),
                     AgentAction(action_type, success, error_message))
         ELSE Append(st.action_history,
                     AgentAction(action_type, success, error_message)),
     total_invocations |-> st.total_invocations + 1,
     successful_invocations |->
         IF success THEN st.successful_invocations + 1
         ELSE st.successful_invocations,
     failed_invocations |->
         IF success THEN st.failed_invocations
         ELSE st.failed_invocations + 1]

\* BaseAgent.record_action: append the action, bump one of the two outcome
\* counters, bump the total.
RecordAction(st, action_type, success, error_message) ==
    [action_history |->
         Append(st.action_history, AgentAction(action_type, success, error_message)),
     total_invocations |-> st.total_invocations + 1,
     successful_invocations |->
         IF success THEN st.successful_invocations + 1
         ELSE st.successful_invocations,
     failed_invocations |->
         IF success THEN st.failed_invocations
         ELSE st.failed_invocations + 1]

\* get_tools of the three agents.
ToolsOf(a) ==
    CASE a = "datadog" ->
             {"query_logs", "extract_unique_services", "format_logs_for_analysis"}
      [] a = "coding" ->
             {"analyze_error_patterns", "suggest_code_fix", "assess_severity"}
      [] a = "servicenow" ->
             {"create_incident", "update_incident", "get_incident_status",
              "search_incidents"}

\* BaseAgent.__init__: the id, the configured name and system prompt, and the
\* inner agent built over the tools.
BuiltAgent(a) ==
    [agent_id |-> <<a, "uuid">>,
     agent_name |-> AgentName(a),
     tools |-> ToolsOf(a),
     system_prompt |-> <<"system prompt of", a>>,
     inner |-> <<"inner agent of", a>>]

\* AIOpsSwarm.__init__: the three agents and the Swarm over their inner
\* agents.
Built ==
    [agents |-> [a \in Agents |-> BuiltAgent(a)],
     roster |-> [i \in 1..Len(Roster) |-> BuiltAgent(Roster[i]).inner]]

\* ------------------------------------------------------------------------
\* AIOpsSwarm: what run and run_async compute themselves
\* ------------------------------------------------------------------------

\* Texts are sequences of chunks; the empty string is the empty sequence.
EmptyText == <<>>

\* An exception: its class and the arguments it was constructed with.
Exc(type, msg) == [type |-> type, msg |-> msg]

NoExc == Exc(None, "")

\* str(e): the message the exception carries.
StrExc(e) == e.msg

\* AIOpsSwarm._get_agents_used: the labels of the agents whose
\* total_invocations is positive, in the fixed order datadog, coding,
\* servicenow.
GetAgentsUsed(st) ==
    LET used(a) == IF st[a].total_invocations > 0 THEN <<Label(a)>> ELSE <<>>
    IN used("datadog") \o used("coding") \o used("servicenow")

\* One "### <agent>" block of the summary: the two counts it prints.
SummarySection(st, a) ==
    IF st[a].total_invocations > 0
    THEN <<[agent |-> Label(a),
            actions |-> st[a].total_invocations,
            successful |-> st[a].successful_invocations]>>
    ELSE <<>>

\* AIOpsSwarm._generate_summary: the header and one block per agent whose
\* total_invocations is positive.
GenerateSummary(st) ==
    [header |-> "## AIOps Swarm Execution Summary",
     sections |-> SummarySection(st, "datadog") \o SummarySection(st, "coding")
                  \o SummarySection(st, "servicenow"),
     error |-> ""]

\* f"Task failed: {e}", the summary of the except branch.
FailedSummary(e) ==
    [header |-> "Task failed: ", sections |-> <<>>, error |-> StrExc(e)]

\* SwarmResult.__init__; the task field, an echo of the argument, is left
\* out.
SwarmResult(success, out, agents_used, summary, error) ==
    [success |-> success, output |-> out,
     agents_used |-> agents_used, summary |-> summary, error |-> error]

NoSummary == [header |-> "", sections |-> <<>>, error |-> ""]

NoResult == SwarmResult(FALSE, EmptyText, <<>>, NoSummary, "")

\* run / run_async, the return inside the try block.
OnReturn(out, st) ==
    SwarmResult(TRUE, out, GetAgentsUsed(st), GenerateSummary(st), "")

\* Mutant: the except branch reports success.
OnExceptionSuccess(e, st) ==
    SwarmResult(TRUE, EmptyText, GetAgentsUsed(st), FailedSummary(e), StrExc(e))

\* Mutant: the except branch reports a fixed text for every failure.
OnExceptionFixedText(e, st) ==
    SwarmResult(FALSE, EmptyText, GetAgentsUsed(st), FailedSummary(e), "swarm failed")

\* run / run_async, the except branch.
OnException(e, st) ==
    SwarmResult(FALSE, EmptyText, GetAgentsUsed(st), FailedSummary(e), StrExc(e))

\* any(word in task.lower() for word in ["log", "error", "analyze", "fetch"])
TaskHasKeyword(task) == task = "analyze errors"

\* The start name run uses: the caller's, or DataDog's on both branches of
\* the keyword test.
RunStart(task, start_agent) ==
    IF start_agent = None
    THEN IF TaskHasKeyword(task) THEN AgentName("datadog") ELSE AgentName("datadog")
    ELSE start_agent

\* The start name run_async uses.
RunAsyncStart(start_agent) ==
    IF start_agent = None THEN AgentName("datadog") ELSE start_agent

\* ------------------------------------------------------------------------
\* The Swarm execution (specification, section 4.3)
\* ------------------------------------------------------------------------

\* Task Context: the bookkeeping of one Swarm execution, and the last answer
\* given in it: who gave it and the handoff it asked for.
SwarmContext(current) ==
    [turn |-> 0, handoffs |-> 0, elapsed |-> 0,
     current |-> current, acted |-> <<>>,
     answered_by |-> None, requested |-> None]

NoContext == SwarmContext(None)

\* Step 1: the roster member a start name denotes, or None.
SwarmResolve(name) ==
    IF \E a \in Agents : AgentName(a) = name
    THEN CHOOSE a \in Agents : AgentName(a) = name
    ELSE None

\* Step 2: the loop condition, tested at the top of every iteration.
SwarmShouldContinue(c) ==
    /\ c.turn < max_iterations
    /\ c.handoffs < max_handoffs
    /\ c.elapsed < execution_timeout

\* Step 3: the bound a budget-exceeded error names.
SwarmTrippedBound(c) ==
    IF c.turn >= max_iterations THEN "max_iterations"
    ELSE IF c.handoffs >= max_handoffs THEN "max_handoffs"
    ELSE "execution_timeout"

\* Step 2c: acted, deduplicated, in first-seen order.
SwarmActed(acted, a) ==
    IF \E i \in 1..Len(acted) : acted[i] = a THEN acted ELSE Append(acted, a)

\* Mutant: a handoff to any name is followed, the asking capability's
\* included; an unknown name leaves the current capability in place.
SwarmFollowsHandoffAny(current, handoff) == handoff # None

\* Step 2d: a handoff is followed iff it names a peer of the roster other
\* than the capability that asked for it.
SwarmFollowsHandoff(current, handoff) ==
    /\ handoff # None
    /\ SwarmResolve(handoff) # None
    /\ SwarmResolve(handoff) # current

\* ------------------------------------------------------------------------
\* AIOpsSwarm.run and run_async around the Swarm execution
\* ------------------------------------------------------------------------

\* The shapes an event of the stream may have for run_async's loop body:
\* without an attribute "data"; with the attribute and a get method; with
\* the attribute but no get method.
EventShapes == {"no_data_attr", "data_and_get", "data_no_get"}

\* str(result) of the value the Swarm call returned.
StrResult(r) == <<r>>

\* run_async's loop body on one event:
\*   if hasattr(event, "data"): output += str(event.get("data"))
StreamAppend(out, sh, data) ==
    IF sh = "no_data_attr" THEN out ELSE out \o <<data>>

\* The exception event.get raises on an event that has no such method.
NoGetMethod == Exc("AttributeError", "object has no attribute 'get'")

\* The call returns a SwarmResult built by the try block.
Returns(out) ==
    /\ result' = OnReturn(out, state)
    /\ raised' = NoExc
    /\ pc' = "done"

\* The classes of the exceptions the Swarm call may raise, all of them
\* subclasses of Exception.
ExceptionClasses ==
    {"ConfigurationError", "BudgetExceededError", "NodeTimeoutError",
     "ReasoningFailure", "AttributeError"}

\* Mutant: the handler is written for the reasoning failures alone.
CaughtReasoningOnly(e) == e.type = "ReasoningFailure"

\* "except Exception as e": the exceptions the handler of run / run_async
\* takes.
Caught(e) == e.type \in ExceptionClasses

\* The Swarm call raised e: the except branch builds the SwarmResult; an
\* exception the handler does not take leaves the call.
Catches(e) ==
    /\ raised' = e
    /\ IF Caught(e)
       THEN /\ result' = OnException(e, state)
            /\ pc' = "done"
       ELSE /\ result' = NoResult
            /\ pc' = "escaped"

\* Entry of run / run_async up to the Swarm call, and step 1 of the Swarm:
\* an unresolvable start name fails before the loop starts.
Enter(m, sh, start) ==
    /\ pc # "running"
    /\ mode' = m
    /\ shape' = sh
    /\ swarm_calls' = 1
    /\ output' = EmptyText
    /\ last_op' = Op(IF m = "sync" THEN "run" ELSE "run_async", None)
    /\ UNCHANGED <<state, config, call, built>>
    /\ IF SwarmResolve(start) = None
       THEN /\ ctx' = SwarmContext(None)
            /\ Catches(Exc("ConfigurationError", "unresolved start"))
       ELSE /\ ctx' = SwarmContext(SwarmResolve(start))
            /\ raised' = NoExc
            /\ result' = NoResult
            /\ pc' = "running"

\* AIOpsSwarm.run(task, start_agent)
Run(task, start_agent) ==
    Enter("sync", None, RunStart(task, start_agent))

\* AIOpsSwarm.run_async(task, start_agent)
RunAsync(task, start_agent, sh) ==
    Enter("async", sh, RunAsyncStart(start_agent))

frame == <<state, config, mode, shape, swarm_calls, last_op, call, built>>

\* Step 2a cut short by the per-step budget, node_timeout ticks after it
\* began.
SwarmNodeTimeout ==
    /\ pc = "running"
    /\ SwarmShouldContinue(ctx)
    /\ ctx' = [ctx EXCEPT !.elapsed = @ + node_timeout]
    /\ Catches(Exc("NodeTimeoutError", "node_timeout"))
    /\ UNCHANGED <<frame, output>>

\* Steps 2a-2b: the reasoning step of the current capability fails.
SwarmTurnFails ==
    /\ pc = "running"
    /\ SwarmShouldContinue(ctx)
    /\ \E d \in 1..node_timeout, msg \in FailureMessages :
        /\ ctx' = [ctx EXCEPT !.elapsed = @ + d]
        /\ Catches(Exc("ReasoningFailure", msg))
    /\ UNCHANGED <<frame, output>>

\* The context after a step of duration d that answered and asked for
\* handoff h (step 2c).
SwarmAfterTurn(c, d, h) ==
    [c EXCEPT !.acted = SwarmActed(@, c.current),
              !.turn = @ + 1,
              !.elapsed = @ + d,
              !.answered_by = c.current,
              !.requested = h]

\* The context after a handoff to the peer named h (step 2d).
SwarmAfterHandoff(c, h) ==
    [c EXCEPT !.handoffs = @ + 1, !.current = SwarmResolve(h)]

\* Mutant: the Swarm is built over the agents themselves, so that every turn
\* goes through BaseAgent.invoke of the current capability.
SwarmTurnRecords ==
    /\ pc = "running"
    /\ SwarmShouldContinue(ctx)
    /\ mode = "sync"
    /\ \E d \in 1..node_timeout, h \in Names \cup {None} :
        /\ ctx' = IF SwarmFollowsHandoff(ctx.current, h)
                  THEN SwarmAfterHandoff(SwarmAfterTurn(ctx, d, h), h)
                  ELSE SwarmAfterTurn(ctx, d, h)
        /\ state' = [state EXCEPT ![ctx.current] = RecordAction(@, "invoke", TRUE, "")]
        /\ IF SwarmFollowsHandoff(ctx.current, h)
           THEN UNCHANGED <<pc, raised, result>>
           ELSE /\ result' = OnReturn(StrResult(ResponseOf(ctx.current)), state')
                /\ raised' = NoExc
                /\ pc' = "done"
    /\ UNCHANGED <<config, mode, shape, swarm_calls, last_op, output, call, built>>

\* Steps 2a, 2c-2e: the current capability answers within its per-step
\* budget and asks for handoff h (None: no handoff). In run_async the answer
\* arrives as an event.
SwarmTurn ==
    /\ pc = "running"
    /\ SwarmShouldContinue(ctx)
    /\ \E d \in 1..node_timeout, h \in Names \cup {None} :
        /\ LET r == ResponseOf(ctx.current)
               c1 == SwarmAfterTurn(ctx, d, h)
               out1 == IF mode = "async" THEN StreamAppend(output, shape, r)
                       ELSE output
           IN IF mode = "async" /\ shape = "data_no_get"
              THEN /\ ctx' = c1
                   /\ output' = output
                   /\ Catches(NoGetMethod)
              ELSE IF SwarmFollowsHandoff(ctx.current, h)
              THEN /\ ctx' = SwarmAfterHandoff(c1, h)
                   /\ output' = out1
                   /\ UNCHANGED <<pc, raised, result>>
              ELSE /\ ctx' = c1
                   /\ output' = out1
                   /\ Returns(IF mode = "async" THEN out1 ELSE StrResult(r))
    /\ UNCHANGED frame

\* Mutant: a loop whose condition fails neither runs a step nor ends.
SwarmBudgetIgnored ==
    /\ pc = "running"
    /\ ~SwarmShouldContinue(ctx)
    /\ UNCHANGED vars

\* Step 3: the loop condition fails; the error names the bound.
SwarmBudgetExceeded ==
    /\ pc = "running"
    /\ ~SwarmShouldContinue(ctx)
    /\ ctx' = ctx
    /\ Catches(Exc("BudgetExceededError", SwarmTrippedBound(ctx)))
    /\ UNCHANGED <<frame, output>>

\* One step of the Swarm execution in progress.
SwarmStep ==
    \/ SwarmTurn
    \/ SwarmTurnFails
    \/ SwarmNodeTimeout
    \/ SwarmBudgetExceeded

\* ------------------------------------------------------------------------
\* Direct calls on the agents
\* ------------------------------------------------------------------------

RECURSIVE SumLen(_, _)
SumLen(f, S) ==
    IF S = {} THEN 0
    ELSE LET a == CHOOSE x \in S : TRUE
         IN Len(f[a].action_history) + SumLen(f, S \ {a})

\* Direct calls on an agent happen one at a time, outside a run call.
CanCall == pc # "running"

\* The ledgers hold fewer than n entries.
Below(n) == SumLen(state, Agents) < n

\* A direct call comes after the caller has taken the result of the run
\* before it: the finished run is kept no longer.
Forget ==
    /\ pc' = "idle"
    /\ mode' = "sync"
    /\ shape' = None
    /\ swarm_calls' = 0
    /\ ctx' = NoContext
    /\ output' = EmptyText
    /\ raised' = NoExc
    /\ result' = NoResult
    /\ UNCHANGED <<max_handoffs, max_iterations, execution_timeout, node_timeout>>
    /\ UNCHANGED built

\* No invoke / ainvoke call was made.
NoCall == [inner |-> None, returned |-> None, raised |-> NoExc]

\* What the inner agent does when called: it answers (ok), in ainvoke by a
\* stream of events that carry the text as attribute data or do not; or it
\* raises with message msg.
InnerCall(a, ok, msg, has_data) ==
    IF ok
    THEN [value |-> ResponseOf(a), has_data |-> has_data, exc |-> NoExc]
    ELSE [value |-> None, has_data |-> has_data,
          exc |-> Exc("ReasoningFailure", msg)]

\* Mutant: invoke logs the failure and answers with the empty text.
InvokeOutcomeSwallows(r) ==
    IF r.exc = NoExc
    THEN [inner |-> r, returned |-> StrResult(r.value), raised |-> NoExc]
    ELSE [inner |-> r, returned |-> EmptyText, raised |-> NoExc]

\* BaseAgent.invoke, what the caller gets: str(result), or the exception
\* raised again by the bare raise.
InvokeOutcome(r) ==
    IF r.exc = NoExc
    THEN [inner |-> r, returned |-> StrResult(r.value), raised |-> NoExc]
    ELSE [inner |-> r, returned |-> None, raised |-> r.exc]

\* BaseAgent.ainvoke, what the caller gets: the data of the events that have
\* the attribute, concatenated, or the exception raised again.
AInvokeOutcome(r) ==
    IF r.exc = NoExc
    THEN [inner |-> r,
          returned |-> IF r.has_data THEN EmptyText \o <<r.value>> ELSE EmptyText,
          raised |-> NoExc]
    ELSE [inner |-> r, returned |-> None, raised |-> r.exc]

\* A direct record_action call, as the agents' own methods make it.
DoRecordAction(a, success) ==
    /\ CanCall
    /\ state' = [state EXCEPT ![a] =
           RecordAction(@, "tool_call", success,
                        IF success THEN "" ELSE "operation failed")]
    /\ last_op' = Op("record_action", a)
    /\ call' = NoCall
    /\ Forget

\* BaseAgent.invoke: the inner agent answers (ok) or raises with message msg.
Invoke(a, ok, msg) ==
    /\ CanCall
    /\ state' = [state EXCEPT ![a] =
           IF ok THEN RecordAction(@, "invoke", TRUE, "")
           ELSE RecordAction(@, "invoke", FALSE, msg)]
    /\ last_op' = Op("invoke", a)
    /\ call' = InvokeOutcome(InnerCall(a, ok, msg, TRUE))
    /\ Forget

\* BaseAgent.ainvoke: as invoke, over the inner agent's event stream.
AInvoke(a, ok, msg) ==
    /\ CanCall
    /\ state' = [state EXCEPT ![a] =
           IF ok THEN RecordAction(@, "async_invoke", TRUE, "")
           ELSE RecordAction(@, "async_invoke", FALSE, msg)]
    /\ last_op' = Op("ainvoke", a)
    /\ \E has_data \in BOOLEAN :
           call' = AInvokeOutcome(InnerCall(a, ok, msg, has_data))
    /\ Forget

\* Mutant: reset_state builds the agent anew, inner agent included.
ResetStateRebuilds(a) ==
    /\ pc # "running"
    /\ state' = [state EXCEPT ![a] = AgentState]
    /\ last_op' = Op("reset_state", a)
    /\ call' = NoCall
    /\ pc' = "idle"
    /\ mode' = "sync"
    /\ shape' = None
    /\ swarm_calls' = 0
    /\ ctx' = NoContext
    /\ output' = EmptyText
    /\ raised' = NoExc
    /\ result' = NoResult
    /\ UNCHANGED <<max_handoffs, max_iterations, execution_timeout, node_timeout>>
    /\ built' = [built EXCEPT !.agents[a].inner = <<"inner agent of", a, "rebuilt">>,
                              !.agents[a].agent_id = <<a, "another uuid">>]

\* BaseAgent.reset_state: a fresh AgentState replaces the old one.
ResetState(a) ==
    /\ pc # "running"
    /\ state' = [state EXCEPT ![a] = AgentState]
    /\ last_op' = Op("reset_state", a)
    /\ call' = NoCall
    /\ Forget

\* AIOpsSwarm.reset: reset_state on each of the three agents.
Reset ==
    /\ pc # "running"
    /\ state' = [a \in Agents |-> AgentState]
    /\ last_op' = Op("reset", None)
    /\ call' = NoCall
    /\ Forget

\* ------------------------------------------------------------------------
\* Two coordinators side by side
\* ------------------------------------------------------------------------

\* The part of a coordinator that a run reads and writes: its agents' states
\* and the position, mode and data of its run call.
Coordinator(st, p, m, sh, c) ==
    [state |-> st, pc |-> p, mode |-> m, shape |-> sh, ctx |-> c,
     output |-> EmptyText, raised |-> NoExc, result |-> NoResult]

\* A second coordinator on which nothing was called yet.
NoTwin == Coordinator([a \in Agents |-> AgentState], "idle", "sync", None, NoContext)

\* Catches, on the second coordinator.
TwinCatches(t, e) ==
    [t EXCEPT !.raised = e,
              !.result = IF Caught(e) THEN OnException(e, t.state) ELSE NoResult,
              !.pc = IF Caught(e) THEN "done" ELSE "escaped"]

\* Returns, on the second coordinator.
TwinReturns(t, out) ==
    [t EXCEPT !.result = OnReturn(out, t.state),
              !.raised = NoExc,
              !.pc = "done"]

\* Enter, on the second coordinator: its agents are as constructed.
TwinEnter(m, sh, start) ==
    LET t == Coordinator(NoTwin.state, "running", m, sh,
                         SwarmContext(SwarmResolve(start)))
    IN IF SwarmResolve(start) = None
       THEN TwinCatches(t, Exc("ConfigurationError", "unresolved start"))
       ELSE t

\* What the capabilities did in the step the first coordinator's Swarm has
\* just taken: the kind of the response, its duration, the handoff it asked
\* for and, for a failure, its message.
SwarmEvent ==
    [kind |-> CASE raised'.type = "BudgetExceededError" -> "budget"
                [] raised'.type = "NodeTimeoutError" -> "node_timeout"
                [] raised'.type = "ReasoningFailure" -> "fail"
                [] OTHER -> "turn",
     d |-> ctx'.elapsed - ctx.elapsed,
     h |-> ctx'.requested,
     msg |-> raised'.msg]

\* SwarmTurn, on the second coordinator, for the response ev.
TwinTurn(t, ev) ==
    LET r == ResponseOf(t.ctx.current)
        c1 == SwarmAfterTurn(t.ctx, ev.d, ev.h)
        out1 == IF t.mode = "async" THEN StreamAppend(t.output, t.shape, r)
                ELSE t.output
    IN IF t.mode = "async" /\ t.shape = "data_no_get"
       THEN TwinCatches([t EXCEPT !.ctx = c1], NoGetMethod)
       ELSE IF SwarmFollowsHandoff(t.ctx.current, ev.h)
       THEN [t EXCEPT !.ctx = SwarmAfterHandoff(c1, ev.h), !.output = out1]
       ELSE TwinReturns([t EXCEPT !.ctx = c1, !.output = out1],
                        IF t.mode = "async" THEN out1 ELSE StrResult(r))

\* The step of the second coordinator's Swarm when its capabilities respond
\* as the first one's did.
TwinApply(t, ev) ==
    IF t.pc # "running" THEN t
    ELSE IF ~SwarmShouldContinue(t.ctx)
    THEN TwinCatches(t, Exc("BudgetExceededError", SwarmTrippedBound(t.ctx)))
    ELSE CASE ev.kind = "node_timeout" ->
                  TwinCatches([t EXCEPT !.ctx.elapsed = @ + node_timeout],
                              Exc("NodeTimeoutError", "node_timeout"))
           [] ev.kind = "fail" ->
                  TwinCatches([t EXCEPT !.ctx.elapsed = @ + ev.d],
                              Exc("ReasoningFailure", ev.msg))
           [] ev.kind = "turn" -> TwinTurn(t, ev)
           [] OTHER -> t

\* A direct call on an agent of the first coordinator.
TwinInvoke(a, ok) ==
    /\ Invoke(a, ok, "backend unreachable")
    /\ twin' = NoTwin
    /\ UNCHANGED <<earlier, workflows>>

\* run(task1) on the first coordinator; on the second one run(task2) or
\* run_async(task2), with the same start_agent argument.
TwinRun(task1, task2, start_agent, m, sh) ==
    /\ Run(task1, start_agent)
    /\ twin' = TwinEnter(m, sh, IF m = "sync" THEN RunStart(task2, start_agent)
                                ELSE RunAsyncStart(start_agent))
    /\ UNCHANGED <<earlier, workflows>>

\* Both Swarm executions take a step on the same response.
TwinStep ==
    /\ SwarmStep
    /\ twin' = TwinApply(twin, SwarmEvent)
    /\ UNCHANGED <<earlier, workflows>>

\* ------------------------------------------------------------------------
\* One coordinator used for run after run
\* ------------------------------------------------------------------------

\* Nothing was done yet: no run finished, no capability acted in a run, no
\* direct call was made on an agent.
NoEarlier ==
    [reused |-> FALSE, acted |-> {}, direct |-> [a \in Agents |-> 0]]

\* The run that has finished becomes an earlier one.
Noted ==
    IF pc = "done"
    THEN [earlier EXCEPT !.reused = TRUE,
                         !.acted = @ \cup {ctx.acted[i] : i \in 1..Len(ctx.acted)}]
    ELSE earlier

\* run called on the instance once more, as handle_swarm does with the
\* process-wide swarm of get_swarm.
ReuseRun(task, start_agent) ==
    /\ Run(task, start_agent)
    /\ earlier' = Noted
    /\ UNCHANGED <<twin, workflows>>

\* A direct call on an agent of the instance between two runs.
ReuseInvoke(a, ok) ==
    /\ Invoke(a, ok, "backend unreachable")
    /\ earlier' = [Noted EXCEPT !.direct[a] = @ + 1]
    /\ UNCHANGED <<twin, workflows>>

\* The explicit reset.
ReuseReset ==
    /\ Reset
    /\ earlier' = NoEarlier
    /\ UNCHANGED <<twin, workflows>>

\* ------------------------------------------------------------------------
\* ProactiveWorkflow: services processed by a pool of worker threads
\* ------------------------------------------------------------------------

\* The services the fetch found with issues, one unit of work each.
Services == {"checkout", "billing"}

\* The severities full_analysis may assess; "high" stands for "critical" too.
Severities == {"high", "medium", "low"}

\* severity in ("critical", "high", "medium"): the gate in front of ticket
\* creation in ServiceProcessor.process and in stage 4 of the orchestrator.
NeedsTicket(severity) == severity \in {"critical", "high", "medium"}

\* The agents a processor holds, one processor serving every unit:
\* ServiceProcessor has _coding_agent, _servicenow_agent and _s3_agent,
\* OrchestratorProcessor has _s3_agent.
ProcessorAgent(n) == <<"processor", n>>

ProcessorAgents == {ProcessorAgent(n) : n \in {"coding", "servicenow", "s3"}}

\* The OrchestratorAgent which OrchestratorProcessor.process builds for the
\* service it is called on.
OrchestratorOf(u) == <<"orchestrator", u>>

\* The objects with a ledger and counters that units write to.
BatchObjects == ProcessorAgents \cup {OrchestratorOf(u) : u \in Services}

\* One record_action call of a unit: the agent, and the arguments.
Recording(o, action_type, success) ==
    [agent |-> o, action_type |-> action_type, success |-> success]

\* ServiceProcessor.process: the record_action calls it leads to, in order.
\* full_analysis records analyze_patterns, suggest_fixes and full_analysis;
\* create_ticket records when the severity asks for a ticket; upload_report
\* records.
LightweightScript(with_ticket, ticket_ok, upload_ok) ==
    <<Recording(ProcessorAgent("coding"), "analyze_patterns", TRUE),
      Recording(ProcessorAgent("coding"), "suggest_fixes", TRUE),
      Recording(ProcessorAgent("coding"), "full_analysis", TRUE)>>
    \o (IF with_ticket
        THEN <<Recording(ProcessorAgent("servicenow"), "create_ticket", ticket_ok)>>
        ELSE <<>>)
    \o <<Recording(ProcessorAgent("s3"), "upload_report", upload_ok)>>

\* OrchestratorProcessor.process: invoke on the unit's own orchestrator and,
\* unless that raised, upload_report on the processor's S3 agent.
OrchestratorScript(u, invoke_ok, upload_ok) ==
    IF invoke_ok
    THEN <<Recording(OrchestratorOf(u), "invoke", TRUE),
           Recording(ProcessorAgent("s3"), "upload_report", upload_ok)>>
    ELSE <<Recording(OrchestratorOf(u), "invoke", FALSE)>>

\* A unit of work: where its thread stands, the record_action calls still to
\* make, the value its thread has read and not yet written back.
Unit(p, script) == [pc |-> p, script |-> script, reg |-> 0]

\* No workflow was run.
NoBatch ==
    [pc |-> "idle",
     lightweight |-> FALSE,
     objects |-> [o \in BatchObjects |-> AgentState],
     units |-> [u \in Services |-> Unit("idle", <<>>)],
     writers |-> [o \in BatchObjects |-> {}],
     affected |-> {},
     fate |-> [u \in Services |-> None],
     results |-> <<>>,
     report |-> None,
     severity |-> [u \in Services |-> None],
     ticketed |-> {},
     calls |-> [o \in BatchObjects |-> 0]]

\* ServiceResult: what process returns for a service, as far as the report
\* reads it.
ServiceResult(service_name, success) ==
    [service_name |-> service_name, success |-> success]

\* _build_report: the services section counts the results, the successful
\* ones and the failed ones.
ProactiveBuildReport(results) ==
    LET successful == SelectSeq(results, LAMBDA r : r.success)
        failed == SelectSeq(results, LAMBDA r : ~r.success)
    IN [success |-> TRUE,
        services |-> [total |-> Len(results),
                      successful |-> Len(successful),
                      failed |-> Len(failed)],
        errors |-> [i \in 1..Len(failed) |-> failed[i].service_name]]

\* run, "except Exception": the dictionary returned instead of a report.
ProactiveFailure(msg) == [success |-> FALSE, error |-> msg]

\* run, "if not services": the fetch found no service with issues and the
\* report is built over no results.
RunNoServices ==
    /\ batch.pc = "idle"
    /\ batch' = [batch EXCEPT !.pc = "reported",
                              !.report = ProactiveBuildReport(<<>>)]
    /\ UNCHANGED <<coordinator, twin, earlier, pipe, ops, journal>>

\* _process_services_parallel: one processor is built and process is submitted
\* to the pool for every affected service.
ProcessServicesParallel(lightweight, services) ==
    /\ batch.pc = "idle"
    /\ services # {}
    /\ batch' = [batch EXCEPT !.pc = "pool",
                              !.lightweight = lightweight,
                              !.affected = services,
                              !.units = [u \in Services |->
                                            IF u \in services
                                            THEN Unit("submitted", <<>>)
                                            ELSE Unit("idle", <<>>)]]
    /\ UNCHANGED <<coordinator, twin, earlier, pipe, ops, journal>>

\* A worker thread enters process for service u; the collaborators' answers
\* decide which record_action calls follow.
UnitProcess(u) ==
    /\ batch.pc = "pool"
    /\ batch.units[u].pc = "submitted"
    /\ \E severity \in Severities, y \in BOOLEAN, z \in BOOLEAN :
        batch' = [batch EXCEPT
            !.units[u] =
                Unit("append",
                     IF batch.lightweight
                     THEN LightweightScript(NeedsTicket(severity), y, z)
                     ELSE OrchestratorScript(u, y, z)),
            !.fate[u] = IF batch.lightweight \/ y THEN "success" ELSE "failure",
            !.severity[u] = IF batch.lightweight THEN severity ELSE None,
            !.ticketed = IF batch.lightweight /\ NeedsTicket(severity)
                         THEN @ \cup {u} ELSE @]
    /\ UNCHANGED <<coordinator, twin, earlier, pipe, ops, journal>>

\* record_action in the thread of unit u, up to the read of the outcome
\* counter: the Action is appended to the agent's ledger.
UnitAppends(u) ==
    /\ batch.pc = "pool"
    /\ batch.units[u].pc = "append"
    /\ LET r == Head(batch.units[u].script)
           st == batch.objects[r.agent]
       IN batch' = [batch EXCEPT
              !.objects[r.agent].action_history =
                  Append(@, AgentAction(r.action_type, r.success,
                                        IF r.success THEN "" ELSE "operation failed")),
              !.writers[r.agent] = @ \cup {u},
              !.calls[r.agent] = @ + 1,
              !.units[u].reg = IF r.success THEN st.successful_invocations
                               ELSE st.failed_invocations,
              !.units[u].pc = "outcome"]
    /\ UNCHANGED <<coordinator, twin, earlier, pipe, ops, journal>>

\* record_action, "successful_invocations += 1" / "failed_invocations += 1":
\* the value read is written back plus one; then total_invocations is read.
UnitCountsOutcome(u) ==
    /\ batch.pc = "pool"
    /\ batch.units[u].pc = "outcome"
    /\ LET r == Head(batch.units[u].script)
           st == batch.objects[r.agent]
           n == batch.units[u].reg + 1
       IN batch' = [batch EXCEPT
              !.objects[r.agent] =
                  IF r.success THEN [st EXCEPT !.successful_invocations = n]
                  ELSE [st EXCEPT !.failed_invocations = n],
              !.units[u].reg = st.total_invocations,
              !.units[u].pc = "total"]
    /\ UNCHANGED <<coordinator, twin, earlier, pipe, ops, journal>>

\* record_action, "total_invocations += 1", written back; the unit goes on to
\* its next call or returns its ServiceResult.
UnitCountsTotal(u) ==
    /\ batch.pc = "pool"
    /\ batch.units[u].pc = "total"
    /\ LET r == Head(batch.units[u].script)
           rest == Tail(batch.units[u].script)
       IN batch' = [batch EXCEPT
              !.objects[r.agent].total_invocations = batch.units[u].reg + 1,
              !.units[u] = Unit(IF rest = <<>> THEN "returned" ELSE "append", rest)]
    /\ UNCHANGED <<coordinator, twin, earlier, pipe, ops, journal>>

\* process ends before any agent recorded an action: its own except branch
\* returns a failure ServiceResult ("failure"), or the call leaves process
\* with an exception that future.result() raises again ("raised").
UnitFails(u, fate) ==
    /\ batch.pc = "pool"
    /\ batch.units[u].pc = "submitted"
    /\ fate \in {"failure", "raised"}
    /\ batch' = [batch EXCEPT !.units[u] = Unit("returned", <<>>),
                              !.fate[u] = fate]
    /\ UNCHANGED <<coordinator, twin, earlier, pipe, ops, journal>>

\* Mutant: a future that raised leaves no result.
CollectedUnlessRaised(results, u, fate) ==
    IF fate = "raised" THEN results
    ELSE Append(results, ServiceResult(u, fate = "success"))

\* The body of the as_completed loop: the result of future.result() is
\* appended, or a failure ServiceResult when future.result() raised.
Collected(results, u, fate) ==
    IF fate = "raised"
    THEN Append(results, ServiceResult(u, FALSE))
    ELSE Append(results, ServiceResult(u, fate = "success"))

\* The main thread takes a finished unit's future from as_completed; after
\* the last one the pool is left and results is returned.
CollectResult(u) ==
    /\ batch.pc = "pool"
    /\ batch.units[u].pc = "returned"
    /\ batch' = [batch EXCEPT
           !.units[u].pc = "collected",
           !.results = Collected(@, u, batch.fate[u]),
           !.pc = IF \A v \in batch.affected \ {u} :
                         batch.units[v].pc = "collected"
                  THEN "done" ELSE "pool"]
    /\ UNCHANGED <<coordinator, twin, earlier, pipe, ops, journal>>

\* run, steps 4 and 5: the summary is uploaded by the S3 agent, which records
\* the upload unless the client raised, and the report is built; an upload
\* that raised is caught by run, which returns the failure dictionary.
UploadSummary(answer) ==
    /\ batch.pc = "done"
    /\ answer \in {"ok", "error", "raises"}
    /\ batch' =
           IF answer = "raises"
           THEN [batch EXCEPT !.pc = "reported",
                              !.report = ProactiveFailure("upload raised")]
           ELSE [batch EXCEPT
                    !.pc = "reported",
                    !.objects[ProcessorAgent("s3")] =
                        RecordAction(@, "upload_summary", answer = "ok",
                                     IF answer = "ok" THEN "" ELSE "operation failed"),
                    !.calls[ProcessorAgent("s3")] = @ + 1,
                    !.report = ProactiveBuildReport(batch.results)]
    /\ UNCHANGED <<coordinator, twin, earlier, pipe, ops, journal>>

\* ------------------------------------------------------------------------
\* The pipeline: OrchestratorAgent.analyze_and_report and
\* DailyAnalysisWorkflow.execute
\* ------------------------------------------------------------------------

\* get_services: the services of the logs, sorted.
ServiceOrder == <<"billing", "checkout">>

\* The services of set S, in the order of get_services.
SortedServices(S) == SelectSeq(ServiceOrder, LAMBDA x : x \in S)

\* The values min_severity_for_ticket is given; "medium" is the default.
MinSeverities == {"high", "medium", "low"}

\* severity_order.get(severity, default) of _create_tickets_for_issues.
SeverityOrder(severity, default) ==
    CASE severity = "critical" -> 0
      [] severity = "high" -> 1
      [] severity = "medium" -> 2
      [] severity = "low" -> 3
      [] OTHER -> default

\* Mutant: the level is compared with that of "low".
BelowMinimumNever(severity, min_severity) ==
    SeverityOrder(severity, 3) > SeverityOrder("low", 2)

\* "severity_level > min_severity_level" of _create_tickets_for_issues.
BelowMinimum(severity, min_severity) ==
    SeverityOrder(severity, 3) > SeverityOrder(min_severity, 2)

\* The number of the incident the backend holds or opens for a service.
TicketNumber(x) == <<"INC", x>>

\* ServiceNowClient.search_incidents: the incidents for service x among
\* those the backend holds in the states asked for.
ClientSearchIncidents(held, x) ==
    IF x \in held THEN <<TicketNumber(x)>> ELSE <<>>

\* ServiceNowAgent.search_incidents: what the client found, or the empty
\* list when the client raised.
SearchIncidents(held, x, search_ok) ==
    IF search_ok THEN ClientSearchIncidents(held, x) ELSE <<>>

\* An entry of the orchestrator's workflow_result["tickets_created"].
TicketEntry(x, ticket_number, priority, note) ==
    [service |-> x, ticket_number |-> ticket_number, priority |-> priority,
     note |-> note]

\* The notes of the entries that stand for no new ticket.
KBNote == "Resolved ticket(s) found - analysis skipped"

DuplicateNote == "Duplicate ticket exists - not creating a new one"

\* An entry of the daily workflow's tickets_skipped.
SkippedEntry(x, reason) == [service |-> x, reason |-> reason]

\* The summaries of the runs that end after the fetch.
NoLogsSummary(kind) ==
    IF kind = "orchestrator"
    THEN "No error/warning logs found in the specified time range."
    ELSE "No logs found in the specified time range"

\* The capability invocations made in the run so far.
NoCalls ==
    [fetch |-> 0, kb_search |-> {}, analysis |-> {}, active_search |-> {},
     search_failed |-> {}, create |-> {}, created |-> {}]

NoPipeline ==
    [kind |-> None, pc |-> "idle", create_tickets |-> TRUE, dry_run |-> FALSE,
     min_severity |-> "medium",
     found |-> {}, resolved |-> {}, active |-> {},
     todo |-> <<>>, to_analyze |-> <<>>,
     analysis |-> [x \in Services |-> None],
     tickets_created |-> <<>>, tickets_skipped |-> <<>>,
     calls |-> NoCalls, result |-> <<>>,
     failure |-> None, action_history |-> <<>>]

\* OrchestratorAgent._generate_workflow_summary: one line under "Tickets
\* Created" for every entry of tickets_created.
GenerateWorkflowSummary(tickets) ==
    [text |-> "## AIOps Workflow Summary",
     tickets |-> [i \in 1..Len(tickets) |->
                     <<tickets[i].ticket_number, tickets[i].priority,
                       tickets[i].service>>]]

\* What analyze_and_report returns.
WorkflowResult(tickets, summary) ==
    [tickets_created |-> tickets, summary |-> summary]

\* DailyAnalysisWorkflow._build_empty_report
BuildEmptyReport(reason) ==
    [success |-> TRUE,
     tickets |-> [created |-> 0, skipped |-> 0, details |-> <<>>],
     summary |-> [text |-> reason, tickets |-> <<>>],
     error |-> ""]

\* DailyAnalysisWorkflow._build_report
BuildReport(services_analyzed, created, skipped) ==
    [success |-> TRUE,
     analysis |-> [services_analyzed |-> services_analyzed],
     tickets |-> [created |-> Len(created), skipped |-> Len(skipped),
                  details |-> created],
     summary |-> [text |-> "# Daily AIOps Analysis Report",
                  tickets |-> [i \in 1..Len(created) |->
                                  <<created[i].ticket_number, created[i].priority,
                                    created[i].service>>]],
     error |-> ""]

\* Mutant: the except branch hands back the report of a run without logs.
FailedReportAsEmpty(msg) == BuildEmptyReport(msg)

\* DailyAnalysisWorkflow.execute, the except branch.
FailedReport(msg) ==
    [success |-> FALSE,
     tickets |-> [created |-> 0, skipped |-> 0, details |-> <<>>],
     summary |-> [text |-> "", tickets |-> <<>>],
     error |-> msg]

\* "if not logs": the fetch returned no record.
NoLogs(found) == found = {}

\* The pipeline is over with result r.
Finished(q, r) == [q EXCEPT !.pc = "done", !.result = r, !.todo = <<>>]

\* A stage raised: analyze_and_report has no handler and the exception goes
\* to its caller; execute catches it and returns its failure report.
Aborted(q, stage, msg) ==
    IF q.kind = "orchestrator"
    THEN [q EXCEPT !.pc = "raised", !.failure = stage]
    ELSE Finished([q EXCEPT !.failure = stage], FailedReport(msg))

\* _analyze_logs, "services_analyzed": len(analysis_by_service).
ServicesAnalyzed(q) == Cardinality({x \in Services : q.analysis[x] # None})

\* Stage 5 of analyze_and_report: the summary is built, the audit Action is
\* still to be recorded; _build_report of execute.
Reported(q) ==
    IF q.kind = "orchestrator"
    THEN [q EXCEPT !.pc = "record", !.todo = <<>>,
                   !.result = WorkflowResult(q.tickets_created,
                                  GenerateWorkflowSummary(q.tickets_created))]
    ELSE Finished(q, BuildReport(ServicesAnalyzed(q), q.tickets_created,
                                 q.tickets_skipped))

\* The stage after the analysis: the ticketing, unless the orchestrator was
\* called with create_tickets = False.
AfterAnalysis(q) ==
    IF q.kind = "orchestrator" /\ ~q.create_tickets
    THEN Reported(q)
    ELSE IF q.to_analyze = <<>> THEN Reported(q)
    ELSE [q EXCEPT !.pc = "tickets", !.todo = q.to_analyze]

\* The stage after the KB check of the orchestrator.
AfterKBCheck(q) ==
    IF q.to_analyze = <<>>
    THEN Finished(q, WorkflowResult(q.tickets_created,
             [text |-> "All issues matched resolved KB tickets; no new analysis required.",
              tickets |-> <<>>]))
    ELSE [q EXCEPT !.pc = "analyze", !.todo = q.to_analyze]

\* The severity gate of the run in front of ticket creation: the literal
\* tuple in stage 4 of the orchestrator, min_severity in the daily workflow.
AsksForTicket(q, x) ==
    IF q.kind = "daily" THEN ~BelowMinimum(q.analysis[x], q.min_severity)
    ELSE NeedsTicket(q.analysis[x])

\* Stage 1: the run starts and fetches the logs; their services are found.
\* Without logs the run ends here.
FetchLogs(kind, create_tickets, dry_run, min_severity, found, resolved, active) ==
    /\ pipe.pc = "idle"
    /\ LET q == [NoPipeline EXCEPT !.kind = kind,
                                   !.create_tickets = create_tickets,
                                   !.dry_run = dry_run,
                                   !.min_severity = min_severity,
                                   !.found = found,
                                   !.resolved = resolved,
                                   !.active = active,
                                   !.calls.fetch = 1]
       IN pipe' =
           IF NoLogs(found)
           THEN Finished(q, IF kind = "orchestrator"
                            THEN WorkflowResult(<<>>,
                                     [text |-> NoLogsSummary(kind), tickets |-> <<>>])
                            ELSE BuildEmptyReport(NoLogsSummary(kind)))
           ELSE IF kind = "orchestrator"
           THEN [q EXCEPT !.pc = "kb", !.todo = SortedServices(found)]
           ELSE [q EXCEPT !.pc = "analyze",
                          !.todo = SortedServices(found),
                          !.to_analyze = SortedServices(found)]
    /\ UNCHANGED <<coordinator, twin, earlier, batch, ops, journal>>

\* Mutant: every service goes on to the analysis.
ServicesToAnalyzeAll(services_to_analyze, x, kb_results) ==
    Append(services_to_analyze, x)

\* Stage 2, "if kb_results: ... else: services_to_analyze.append(service)".
ServicesToAnalyze(services_to_analyze, x, kb_results) ==
    IF kb_results # <<>> THEN services_to_analyze
    ELSE Append(services_to_analyze, x)

\* Stage 2 of analyze_and_report, one service: resolved tickets found for it
\* take it out of the analysis and put an entry into tickets_created.
KBCheck ==
    /\ pipe.pc = "kb"
    /\ pipe.kind = "orchestrator"
    /\ \E search_ok \in BOOLEAN :
        LET x == Head(pipe.todo)
            kb_results == SearchIncidents(pipe.resolved, x, search_ok)
            q == [pipe EXCEPT
                    !.todo = Tail(@),
                    !.calls.kb_search = @ \cup {x},
                    !.tickets_created =
                        IF kb_results # <<>>
                        THEN Append(@, TicketEntry(x, kb_results, "N/A", KBNote))
                        ELSE @,
                    !.to_analyze = ServicesToAnalyze(@, x, kb_results)]
        IN pipe' = IF q.todo = <<>> THEN AfterKBCheck(q) ELSE q
    /\ UNCHANGED <<coordinator, twin, earlier, batch, ops, journal>>

\* Stage 3 / _analyze_logs, one service: full_analysis assesses a severity.
Analyze ==
    /\ pipe.pc = "analyze"
    /\ pipe.todo # <<>>
    /\ \E severity \in Severities :
        LET x == Head(pipe.todo)
            q == [pipe EXCEPT !.todo = Tail(@),
                              !.calls.analysis = @ \cup {x},
                              !.analysis[x] = severity]
        IN pipe' = IF q.todo = <<>> THEN AfterAnalysis(q) ELSE q
    /\ UNCHANGED <<coordinator, twin, earlier, batch, ops, journal>>

\* Stage 3 / _analyze_logs: the analysis of a service raises. The exception
\* leaves analyze_and_report; execute returns its failure report.
AnalyzeRaises ==
    /\ pipe.pc = "analyze"
    /\ pipe.todo # <<>>
    /\ pipe' = Aborted([pipe EXCEPT !.calls.analysis = @ \cup {Head(pipe.todo)}],
                       "analyze", "analysis failed")
    /\ UNCHANGED <<coordinator, twin, earlier, batch, ops, journal>>

\* Stage 4 of analyze_and_report, one service: below medium nothing is done;
\* else active tickets are searched and either a duplicate entry or, after
\* create_ticket_from_analysis, the ticket's entry is put into
\* tickets_created.
CreateTickets ==
    /\ pipe.pc = "tickets"
    /\ pipe.kind = "orchestrator"
    /\ \E search_ok \in BOOLEAN, create_ok \in BOOLEAN :
        LET x == Head(pipe.todo)
            severity == pipe.analysis[x]
            existing == SearchIncidents(pipe.active, x, search_ok)
            q == IF ~NeedsTicket(severity)
                 THEN [pipe EXCEPT !.todo = Tail(@)]
                 ELSE IF existing # <<>>
                 THEN [pipe EXCEPT
                         !.todo = Tail(@),
                         !.calls.active_search = @ \cup {x},
                         !.calls.search_failed =
                             IF search_ok THEN @ ELSE @ \cup {x},
                         !.tickets_created =
                             Append(@, TicketEntry(x, existing, severity,
                                 DuplicateNote))]
                 ELSE [pipe EXCEPT
                         !.todo = Tail(@),
                         !.calls.active_search = @ \cup {x},
                         !.calls.search_failed =
                             IF search_ok THEN @ ELSE @ \cup {x},
                         !.calls.create = @ \cup {x},
                         !.calls.created = IF create_ok THEN @ \cup {x} ELSE @,
                         !.tickets_created =
                             Append(@, TicketEntry(x,
                                 IF create_ok THEN TicketNumber(x) ELSE <<>>,
                                 severity, ""))]
        IN pipe' = IF q.todo = <<>> THEN Reported(q) ELSE q
    /\ UNCHANGED <<coordinator, twin, earlier, batch, ops, journal>>

\* Mutant: the dry-run flag is not looked at.
DryRunIgnored(q) == FALSE

\* "if self._dry_run" of _create_tickets_for_issues.
DryRun(q) == q.dry_run

\* Mutant: the ticket's entry is listed as created whatever the call
\* returned.
TicketListedAlways(q, x, severity, create_ok) ==
    [q EXCEPT
        !.todo = Tail(@),
        !.calls.create = @ \cup {x},
        !.calls.created = IF create_ok THEN @ \cup {x} ELSE @,
        !.tickets_created =
            Append(@, TicketEntry(x, IF create_ok THEN TicketNumber(x) ELSE <<>>,
                                  severity, ""))]

\* _create_tickets_for_issues after create_ticket_from_analysis returned:
\* "if 'error' not in ticket" the ticket's entry goes to tickets_created,
\* else a "Creation failed" entry goes to tickets_skipped.
TicketListed(q, x, severity, create_ok) ==
    IF create_ok
    THEN [q EXCEPT
            !.todo = Tail(@),
            !.calls.create = @ \cup {x},
            !.calls.created = @ \cup {x},
            !.tickets_created =
                Append(@, TicketEntry(x, TicketNumber(x), severity, ""))]
    ELSE [q EXCEPT
            !.todo = Tail(@),
            !.calls.create = @ \cup {x},
            !.tickets_skipped =
                Append(@, SkippedEntry(x, "Creation failed"))]

\* _create_tickets_for_issues of the daily workflow, one service.
CreateTicketsForIssues ==
    /\ pipe.pc = "tickets"
    /\ pipe.kind = "daily"
    /\ \E create_ok \in BOOLEAN :
        LET x == Head(pipe.todo)
            severity == pipe.analysis[x]
            q == IF ~pipe.create_tickets
                 THEN [pipe EXCEPT
                         !.todo = Tail(@),
                         !.tickets_skipped =
                             Append(@, SkippedEntry(x, "Ticket creation disabled"))]
                 ELSE IF BelowMinimum(severity, pipe.min_severity)
                 THEN [pipe EXCEPT
                         !.todo = Tail(@),
                         !.tickets_skipped =
                             Append(@, SkippedEntry(x, "Below minimum severity"))]
                 ELSE IF DryRun(pipe)
                 THEN [pipe EXCEPT
                         !.todo = Tail(@),
                         !.tickets_created =
                             Append(@, TicketEntry(x, <<"DRY-RUN-XXXX">>, severity,
                                                   "dry_run"))]
                 ELSE TicketListed(pipe, x, severity, create_ok)
        IN pipe' = IF q.todo = <<>> THEN Reported(q) ELSE q
    /\ UNCHANGED <<coordinator, twin, earlier, batch, ops, journal>>

\* Stage 1 raises: the log query fails.
FetchRaises(kind, create_tickets, dry_run) ==
    /\ pipe.pc = "idle"
    /\ pipe' = Aborted([NoPipeline EXCEPT !.kind = kind,
                                          !.create_tickets = create_tickets,
                                          !.dry_run = dry_run,
                                          !.calls.fetch = 1],
                       "fetch", "fetch failed")
    /\ UNCHANGED <<coordinator, twin, earlier, batch, ops, journal>>

\* Stage 4 / _create_tickets_for_issues: create_ticket_from_analysis raises
\* on a service that asks for a ticket, after the tickets of the services
\* before it were created.
CreateTicketRaises ==
    /\ pipe.pc = "tickets"
    /\ pipe.todo # <<>>
    /\ pipe.create_tickets
    /\ ~pipe.dry_run
    /\ AsksForTicket(pipe, Head(pipe.todo))
    /\ pipe.kind = "orchestrator" => Head(pipe.todo) \notin pipe.active
    /\ pipe' = Aborted([pipe EXCEPT
                          !.calls.active_search =
                              IF pipe.kind = "orchestrator"
                              THEN @ \cup {Head(pipe.todo)} ELSE @,
                          !.calls.create = @ \cup {Head(pipe.todo)}],
                       "tickets", "ticket creation failed")
    /\ UNCHANGED <<coordinator, twin, earlier, batch, ops, journal>>

\* Mutant: no audit Action is recorded.
AuditedNever(q) == q

\* record_action("full_workflow", ...) on the orchestrator itself.
Audited(q) ==
    [q EXCEPT !.action_history = Append(@, AgentAction("full_workflow", TRUE, ""))]

\* Stage 6 of analyze_and_report: the audit Action is recorded and the result
\* returned.
RecordWorkflow ==
    /\ pipe.pc = "record"
    /\ pipe' = [Audited(pipe) EXCEPT !.pc = "done"]
    /\ UNCHANGED <<coordinator, twin, earlier, batch, ops, journal>>

\* ------------------------------------------------------------------------
\* ServiceNowAgent and S3Agent: the operations called directly
\* ------------------------------------------------------------------------

OpAgents == {"servicenow", "s3"}

\* What the client under an operation does: it answers with the value of a
\* success, answers with an error value, or raises.
Answers == {"ok", "error", "raises"}

\* No call was made.
NoOperations ==
    [state |-> [a \in OpAgents |-> AgentState],
     call |-> [op |-> None, agent |-> None, answer |-> None,
               returned |-> None, raised |-> FALSE]]

\* The calls made so far are fewer than n.
FewerCalls(n) ==
    \A a \in OpAgents : ops.state[a].total_invocations < n

\* The outcome of a call: the agent's state after it and what the caller
\* gets.
Outcome(op, a, answer, st, returned, raises) ==
    [state |-> [ops.state EXCEPT ![a] = st],
     call |-> [op |-> op, agent |-> a, answer |-> answer,
               returned |-> returned, raised |-> raises]]

\* ServiceNowAgent.create_ticket: create_incident answers with the ticket or
\* with {"error": ...}; the outcome is recorded and the answer returned. An
\* exception of the client passes through.
CreateTicket(answer) ==
    /\ ops' = LET st == ops.state["servicenow"]
              IN CASE answer = "ok" ->
                        Outcome("create_ticket", "servicenow", answer,
                                RecordAction(st, "create_ticket", TRUE, ""),
                                "ticket", FALSE)
                   [] answer = "error" ->
                        Outcome("create_ticket", "servicenow", answer,
                                RecordAction(st, "create_ticket", FALSE, "error"),
                                "error dict", FALSE)
                   [] OTHER ->
                        Outcome("create_ticket", "servicenow", answer, st,
                                None, TRUE)
    /\ UNCHANGED <<coordinator, twin, earlier, batch, pipe, journal>>

\* ServiceNowAgent.update_ticket: without updates {"error": "No updates
\* provided"} is returned at once; else as create_ticket, on update_incident.
UpdateTicket(has_updates, answer) ==
    /\ ops' = LET st == ops.state["servicenow"]
              IN CASE ~has_updates ->
                        Outcome("update_ticket", "servicenow", "no updates", st,
                                "error dict", FALSE)
                   [] has_updates /\ answer = "ok" ->
                        Outcome("update_ticket", "servicenow", answer,
                                RecordAction(st, "update_ticket", TRUE, ""),
                                "ticket", FALSE)
                   [] has_updates /\ answer = "error" ->
                        Outcome("update_ticket", "servicenow", answer,
                                RecordAction(st, "update_ticket", FALSE, "error"),
                                "error dict", FALSE)
                   [] OTHER ->
                        Outcome("update_ticket", "servicenow", answer, st,
                                None, TRUE)
    /\ UNCHANGED <<coordinator, twin, earlier, batch, pipe, journal>>

\* ServiceNowAgent.search_incidents called directly: the try records the
\* search and returns the list; the except records the failure and returns
\* the empty list. The client has no error answer.
SearchTickets(answer) ==
    /\ answer \in {"ok", "raises"}
    /\ ops' = LET st == ops.state["servicenow"]
              IN IF answer = "ok"
                 THEN Outcome("search_tickets", "servicenow", answer,
                              RecordAction(st, "search_tickets", TRUE, ""),
                              "list", FALSE)
                 ELSE Outcome("search_tickets", "servicenow", answer,
                              RecordAction(st, "search_tickets", FALSE, "raised"),
                              "empty list", FALSE)
    /\ UNCHANGED <<coordinator, twin, earlier, batch, pipe, journal>>

\* S3Client.upload_report: no bucket or a ClientError of put_object gives
\* {"success": False, "error": ...}; any other exception of put_object
\* passes through.
ClientUploadReport(answer) ==
    CASE answer = "ok" -> [success |-> TRUE, error |-> "", raised |-> FALSE]
      [] answer = "error" -> [success |-> FALSE, error |-> "error", raised |-> FALSE]
      [] OTHER -> [success |-> FALSE, error |-> "", raised |-> TRUE]

\* S3Agent.upload_report: the client's result is recorded with
\* success = result.get("success", False) and returned.
UploadReport(answer) ==
    /\ ops' = LET st == ops.state["s3"]
                  res == ClientUploadReport(answer)
              IN IF res.raised
                 THEN Outcome("upload_report", "s3", answer, st, None, TRUE)
                 ELSE Outcome("upload_report", "s3", answer,
                              RecordAction(st, "upload_report", res.success,
                                           res.error),
                              IF res.success THEN "upload dict" ELSE "error dict",
                              FALSE)
    /\ UNCHANGED <<coordinator, twin, earlier, batch, pipe, journal>>

\* ------------------------------------------------------------------------
\* get_all_actions and get_all_agent_actions: the ledgers merged
\* ------------------------------------------------------------------------

\* The agents in the order their ledgers are copied into the list:
\* get_all_agent_actions starts with the orchestrator's own, get_all_actions
\* of the coordinator has the three specialists only.
MergeOrder(unit) ==
    IF unit = "orchestrator"
    THEN <<"Orchestrator", "DataDog", "Coding", "ServiceNow">>
    ELSE <<"DataDog", "Coding", "ServiceNow">>

MergeAgents == {"Orchestrator", "DataDog", "Coding", "ServiceNow"}

\* No Action was recorded; the clock reads 0.
NoJournal ==
    [clock |-> 0, recorded |-> 0,
     ledgers |-> [a \in MergeAgents |-> <<>>],
     unit |-> None, merged |-> <<>>]

\* The clock agrees with _utc_now_iso: the reading moves on.
Tick ==
    /\ journal.clock < MaxClock
    /\ journal' = [journal EXCEPT !.clock = @ + 1]
    /\ UNCHANGED <<coordinator, twin, earlier, batch, pipe, ops>>

\* record_action on agent a: the AgentAction takes the reading of the clock
\* as its timestamp; serial is its place in the order of recording.
Record(a) ==
    /\ journal.recorded < MaxRecorded
    /\ journal' = [journal EXCEPT
           !.recorded = @ + 1,
           !.ledgers[a] = Append(@, [timestamp |-> journal.clock,
                                     serial |-> journal.recorded + 1])]
    /\ UNCHANGED <<coordinator, twin, earlier, batch, pipe, ops>>

\* The ledgers of the agents, copied one after the other with the agent's
\* name on every entry.
RECURSIVE Copied(_, _)
Copied(order, ledgers) ==
    IF order = <<>> THEN <<>>
    ELSE [i \in 1..Len(ledgers[Head(order)]) |->
             [agent |-> Head(order),
              timestamp |-> ledgers[Head(order)][i].timestamp,
              serial |-> ledgers[Head(order)][i].serial]]
         \o Copied(Tail(order), ledgers)

\* list.sort(key=timestamp): e put into the sorted list after every entry
\* whose timestamp is not greater, the sort being stable.
RECURSIVE Inserted(_, _)
Inserted(sorted, e) ==
    IF sorted = <<>> THEN <<e>>
    ELSE IF Head(sorted).timestamp <= e.timestamp
    THEN <<Head(sorted)>> \o Inserted(Tail(sorted), e)
    ELSE <<e>> \o sorted

RECURSIVE Sorted(_)
Sorted(actions) ==
    IF actions = <<>> THEN <<>>
    ELSE Inserted(Sorted(SubSeq(actions, 1, Len(actions) - 1)),
                  actions[Len(actions)])

\* get_all_actions / get_all_agent_actions
GetAllActions(unit) ==
    /\ journal' = [journal EXCEPT
           !.unit = unit,
           !.merged = Sorted(Copied(MergeOrder(unit), journal.ledgers))]
    /\ UNCHANGED <<coordinator, twin, earlier, batch, pipe, ops>>

\* ------------------------------------------------------------------------
\* Specification
\* ------------------------------------------------------------------------

Init ==
    /\ state = [a \in Agents |-> AgentState]
    /\ max_handoffs \in 1..MaxHandoffs
    /\ max_iterations \in 1..MaxIterations
    /\ execution_timeout \in 1..MaxTimeout
    /\ node_timeout \in 1..MaxNodeTimeout
    /\ pc = "idle"
    /\ mode = "sync"
    /\ shape = None
    /\ ctx = NoContext
    /\ output = EmptyText
    /\ swarm_calls = 0
    /\ raised = NoExc
    /\ result = NoResult
    /\ last_op = Op("none", None)
    /\ twin = NoTwin
    /\ earlier = NoEarlier
    /\ call = NoCall
    /\ built = Built
    /\ batch = NoBatch
    /\ pipe = NoPipeline
    /\ ops = NoOperations
    /\ journal = NoJournal

\* The agents used on their own.
LedgerNext ==
    \/ \E a \in Agents, success \in BOOLEAN :
           Below(MaxActions) /\ DoRecordAction(a, success) /\ UNCHANGED beside
    \/ \E a \in Agents, ok \in BOOLEAN, msg \in FailureMessages :
           Below(MaxActions) /\ Invoke(a, ok, msg) /\ UNCHANGED beside
    \/ \E a \in Agents, ok \in BOOLEAN, msg \in FailureMessages :
           Below(MaxActions) /\ AInvoke(a, ok, msg) /\ UNCHANGED beside
    \/ \E a \in Agents : ResetState(a) /\ UNCHANGED beside
    \/ Reset /\ UNCHANGED beside

\* No coordinator: the budgets are of no account.
LedgerInit == Init /\ \A i \in 1..Len(config) : config[i] = 1

LedgerSpec == LedgerInit /\ [][LedgerNext]_vars

\* A coordinator: runs, with direct calls on its agents between them.
Next ==
    \/ \E a \in Agents, ok \in BOOLEAN :
           Below(MaxDirect) /\ Invoke(a, ok, "backend unreachable")
               /\ UNCHANGED beside
    \/ Reset /\ UNCHANGED beside
    \/ \E task \in Tasks, start \in Names \cup {None} :
           Run(task, start) /\ UNCHANGED beside
    \/ \E task \in Tasks, start \in Names \cup {None}, sh \in EventShapes :
           RunAsync(task, start, sh) /\ UNCHANGED beside
    \/ SwarmStep /\ UNCHANGED beside

Spec == Init /\ [][Next]_vars

\* The run call is synchronous: once entered, the loop keeps taking steps.
FairSpec == Spec /\ WF_vars(SwarmStep /\ UNCHANGED beside)

\* Two coordinators given the same start_agent and the same responses.
TwinNext ==
    \/ \E a \in Agents, ok \in BOOLEAN : Below(MaxDirect) /\ TwinInvoke(a, ok)
    \/ \E task1 \in Tasks, task2 \in Tasks, start \in Names \cup {None} :
           \/ TwinRun(task1, task2, start, "sync", None)
           \/ \E sh \in EventShapes : TwinRun(task1, task2, start, "async", sh)
    \/ TwinStep

TwinSpec == Init /\ [][TwinNext]_vars

\* One coordinator, run again and again without a reset in between.
ReuseNext ==
    \/ \E a \in Agents, ok \in BOOLEAN : Below(MaxDirect) /\ ReuseInvoke(a, ok)
    \/ \E task \in Tasks, start \in Names \cup {None} : ReuseRun(task, start)
    \/ ReuseReset
    \/ SwarmStep /\ UNCHANGED beside

ReuseSpec == Init /\ [][ReuseNext]_vars

\* The proactive workflow's worker pool.
BatchNext ==
    \/ RunNoServices
    \/ \E lightweight \in BOOLEAN, services \in SUBSET Services :
          ProcessServicesParallel(lightweight, services)
    \/ \E u \in Services : UnitProcess(u)
    \/ \E u \in Services, fate \in {"failure", "raised"} : UnitFails(u, fate)
    \/ \E u \in Services : UnitAppends(u)
    \/ \E u \in Services : UnitCountsOutcome(u)
    \/ \E u \in Services : UnitCountsTotal(u)
    \/ \E u \in Services : CollectResult(u)
    \/ \E answer \in Answers : UploadSummary(answer)

BatchSpec == LedgerInit /\ [][BatchNext]_vars

\* One run of the pipeline, by the orchestrator or by the daily workflow,
\* against a ticketing backend holding resolved and active tickets.
PipelineNext ==
    \/ \E kind \in {"orchestrator", "daily"}, create_tickets \in BOOLEAN,
          dry_run \in BOOLEAN, min_severity \in MinSeverities,
          found \in SUBSET Services, resolved \in SUBSET Services,
          active \in SUBSET Services :
           /\ kind = "orchestrator" => ~dry_run /\ min_severity = "medium"
           /\ FetchLogs(kind, create_tickets, dry_run, min_severity,
                        found, resolved, active)
    \/ \E kind \in {"orchestrator", "daily"}, create_tickets \in BOOLEAN,
          dry_run \in BOOLEAN :
           /\ kind = "orchestrator" => ~dry_run
           /\ FetchRaises(kind, create_tickets, dry_run)
    \/ KBCheck
    \/ Analyze
    \/ AnalyzeRaises
    \/ CreateTickets
    \/ CreateTicketsForIssues
    \/ CreateTicketRaises
    \/ RecordWorkflow

PipelineSpec == LedgerInit /\ [][PipelineNext]_vars

\* The operations of the ServiceNow and S3 agents called one after another.
OperationsNext ==
    \/ \E answer \in Answers : FewerCalls(MaxCalls) /\ CreateTicket(answer)
    \/ \E has_updates \in BOOLEAN, answer \in Answers :
           FewerCalls(MaxCalls) /\ UpdateTicket(has_updates, answer)
    \/ \E answer \in Answers : FewerCalls(MaxCalls) /\ SearchTickets(answer)
    \/ \E answer \in Answers : FewerCalls(MaxCalls) /\ UploadReport(answer)

OperationsSpec == LedgerInit /\ [][OperationsNext]_vars

\* Actions recorded on the agents of a unit as the clock moves on, and the
\* merged list asked for at any time. The coordinator has no orchestrator
\* ledger to merge.
MergeNext ==
    \/ Tick
    \/ \E a \in MergeAgents : Record(a)
    \/ \E unit \in {"swarm", "orchestrator"} : GetAllActions(unit)

MergeSpec == LedgerInit /\ [][MergeNext]_vars

\* One workflow at a time: a batch of the proactive workflow, or a run of
\* the pipeline.
WorkflowsNext ==
    \/ pipe.pc = "idle" /\ BatchNext
    \/ batch.pc = "idle" /\ PipelineNext

WorkflowsSpec == LedgerInit /\ [][WorkflowsNext]_vars

\* ------------------------------------------------------------------------
\* Claims
\* ------------------------------------------------------------------------

\* The number of entries of a ledger with success = TRUE.
Successes(h) == Cardinality({i \in 1..Len(h) : h[i].success})

BoundNames == {"max_iterations", "max_handoffs", "execution_timeout"}

\* The labels of the capabilities that acted in the run, in first-seen order.
ActedLabels == [i \in 1..Len(ctx.acted) |-> Label(ctx.acted[i])]

\* C1: after any sequence of record_action, invoke, ainvoke and reset_state
\* calls, every agent has len(action_history) = successful_invocations +
\* failed_invocations = total_invocations, successful_invocations is the
\* number of entries with success = true, and right after reset_state (or the
\* coordinator's reset) the ledger is empty and the three counters are 0.
C1_LedgerMatchesCounters ==
    /\ \A a \in Agents :
        /\ Len(state[a].action_history)
               = state[a].successful_invocations + state[a].failed_invocations
        /\ state[a].successful_invocations + state[a].failed_invocations
               = state[a].total_invocations
        /\ state[a].successful_invocations = Successes(state[a].action_history)
    /\ last_op.op = "reset_state" =>
        /\ state[last_op.agent].action_history = <<>>
        /\ state[last_op.agent].total_invocations = 0
        /\ state[last_op.agent].successful_invocations = 0
        /\ state[last_op.agent].failed_invocations = 0
    /\ last_op.op = "reset" => \A a \in Agents : state[a] = AgentState

\* An agent was reset while another holds successes and a failure.
C1_Witness ==
    /\ last_op.op = "reset_state"
    /\ \E b \in Agents :
        /\ b # last_op.agent
        /\ state[b].total_invocations = 3
        /\ state[b].failed_invocations = 1

\* C2: run and run_async always return a SwarmResult and let no exception
\* leave the call, whether the Swarm execution completes, raises at any
\* point, exceeds a budget or cannot resolve the start name.
C2_AlwaysAResult ==
    /\ pc # "escaped"
    /\ pc = "done" =>
        /\ result # NoResult
        /\ result.success \in BOOLEAN
        /\ raised # NoExc => ~result.success

\* run_async ended by a budget the Swarm execution exceeded.
C2_Witness ==
    /\ pc = "done"
    /\ mode = "async"
    /\ raised.type = "BudgetExceededError"
    /\ ~result.success

\* C3: after any run, agents_used is exactly the list of the capabilities
\* that acted during the run, each once, at the position of its first action.
C3_AgentsUsedAreTheActors ==
    pc = "done" => result.agents_used = ActedLabels

\* C4: a run stopped by max_iterations, max_handoffs or execution_timeout
\* returns success = false and an error naming a bound that did trip; with
\* max_iterations = 1 and a handoff asked for on every turn it ends failed
\* after exactly one turn.
C4_BudgetFailureNamesBound ==
    (pc = "done" /\ raised.type = "BudgetExceededError") =>
        /\ ~result.success
        /\ result.error \in BoundNames
        /\ result.error = "max_iterations" => ctx.turn >= max_iterations
        /\ result.error = "max_handoffs" => ctx.handoffs >= max_handoffs
        /\ result.error = "execution_timeout" => ctx.elapsed >= execution_timeout
        /\ max_iterations = 1 => (ctx.turn = 1 /\ result.error = "max_iterations")

\* max_iterations = 1, the only turn asked for a handoff, the run failed.
C4_Witness ==
    /\ pc = "done"
    /\ max_iterations = 1
    /\ ctx.turn = 1
    /\ ctx.handoffs = 1
    /\ ~result.success
    /\ result.error = "max_iterations"

\* C5: every run call returns: whatever the capabilities do, a handoff on
\* every turn included, the loop stops once a budget is reached.
C5_RunReturns == (pc = "running") ~> (pc = "done")

\* A run in which every turn handed off, stopped by the handoff budget.
C5_Witness ==
    /\ pc = "done"
    /\ ctx.turn = ctx.handoffs
    /\ ctx.handoffs = max_handoffs
    /\ ctx.turn < max_iterations
    /\ result.error = "max_handoffs"

\* C6: when the Swarm execution raises, the run ends there with success =
\* false, error = the string form of the failure, output = "", and the Swarm
\* was invoked once by that run call.
C6_FailureIsTerminal ==
    (pc = "done" /\ raised # NoExc) =>
        /\ ~result.success
        /\ result.error = raised.msg
        /\ result.output = EmptyText
        /\ swarm_calls = 1

\* The second turn of a run failed with a message.
C6_Witness ==
    /\ pc = "done"
    /\ raised.type = "ReasoningFailure"
    /\ raised.msg = "backend unreachable"
    /\ ctx.turn = 1
    /\ result.error = "backend unreachable"

\* C7: in every SwarmResult of run or run_async, error is non-empty iff
\* success is false.
C7_ErrorIffFailure ==
    pc = "done" => (result.error # "" <=> ~result.success)

\* C8: a run that fails after capabilities have acted lists them in
\* agents_used and carries in its summary the ledger counts of each of them,
\* exactly as a completed run would.
C8_FailedRunKeepsSummary ==
    (pc = "done" /\ ~result.success /\ ctx.acted # <<>>) =>
        /\ \A i \in 1..Len(ctx.acted) :
               \E j \in 1..Len(result.agents_used) :
                   result.agents_used[j] = Label(ctx.acted[i])
        /\ result.summary = GenerateSummary(state)

\* C9: a capability answering run with a handoff to itself or to a name
\* outside the roster completes the run on that turn: success = true, that
\* answer is the output, no error, no handoff counted, no further turn.
C9_SelfOrUnknownHandoffCompletes ==
    (pc = "done" /\ mode = "sync" /\ ctx.answered_by # None
        /\ ctx.requested \in {AgentName(ctx.answered_by), UnknownName}) =>
        /\ result.success
        /\ result.error = ""
        /\ result.output = <<ResponseOf(ctx.answered_by)>>
        /\ ctx.current = ctx.answered_by
        /\ ctx.handoffs = ctx.turn - 1

\* The second capability of a run asked for a handoff to itself.
C9_Witness ==
    /\ pc = "done"
    /\ mode = "sync"
    /\ ctx.turn = 2
    /\ ctx.handoffs = 1
    /\ ctx.requested = AgentName(ctx.answered_by)
    /\ result.success

\* C10: a run whose start name matches no capability fails with a resolution
\* error before any capability is invoked: success = false, agents_used is
\* empty and no ledger entry is added.
C10_UnresolvedStartFailsFast ==
    (pc = "done" /\ raised.type = "ConfigurationError") =>
        /\ ~result.success
        /\ ctx.turn = 0
        /\ result.agents_used = <<>>

\* C11: two runs on coordinators with the same roster and budgets whose
\* capabilities give the same responses end with the same agents_used and the
\* same success; with no start_agent given, the task text has no say in it.
C11_RunsAreDeterministic ==
    (pc = "done" /\ twin.pc = "done" /\ twin.mode = mode) =>
        /\ result.agents_used = twin.result.agents_used
        /\ result.success = twin.result.success

\* The capabilities that acted in the current run.
ActedNow == {ctx.acted[i] : i \in 1..Len(ctx.acted)}

\* The ledger entries of agent a that the current run or a direct call on a
\* accounts for.
Accounted(a) ==
    earlier.direct[a] + (IF a \in ActedNow THEN ctx.turn ELSE 0)

\* C12: the Result of a run called on an instance that already ran, with no
\* reset in between, holds in agents_used and in summary no capability and no
\* count that stems from an earlier run.
C12_ResultDescribesItsRun ==
    (pc = "done" /\ earlier.reused) =>
        /\ \A i \in 1..Len(result.agents_used) :
               \E a \in Agents :
                   /\ Label(a) = result.agents_used[i]
                   /\ Accounted(a) > 0
        /\ \A i \in 1..Len(result.summary.sections) :
               \E a \in Agents :
                   /\ Label(a) = result.summary.sections[i].agent
                   /\ result.summary.sections[i].actions <= Accounted(a)

\* A second run completed by a capability other than those of the first.
C12_Witness ==
    /\ pc = "done"
    /\ earlier.reused
    /\ result.success
    /\ earlier.acted # {}
    /\ ActedNow # {}
    /\ earlier.acted \cap ActedNow = {}

\* The last entry of a ledger.
Last(h) == h[Len(h)]

C14_ResetTouchesLedgerOnly ==
    [][/\ last_op'.op = "reset_state" =>
           /\ state'[last_op'.agent] = AgentState
           /\ \A b \in Agents \ {last_op'.agent} : state'[b] = state[b]
           /\ built' = built
           /\ config' = config
       /\ last_op'.op = "reset" =>
           /\ \A a \in Agents : state'[a] = AgentState
           /\ built'.agents = built.agents
           /\ built'.roster = built.roster
           /\ config' = config]_vars

\* reset_state emptied the ledger of one agent and left another's alone.
C14_Witness ==
    /\ last_op.op = "reset_state"
    /\ state[last_op.agent] = AgentState
    /\ \E b \in Agents : Len(state[b].action_history) = MaxActions

\* Ledger g is ledger h with entries added at the end.
IsPrefix(h, g) ==
    /\ Len(h) <= Len(g)
    /\ SubSeq(g, 1, Len(h)) = h

\* C15: across every step other than reset_state (and the coordinator's
\* reset), every agent's earlier action_history is a prefix of the later one:
\* entries are added at the end and never removed, reordered or changed; and
\* an Action that is added goes to the ledger of one agent only.
C15_LedgerAppendOnly ==
    [][last_op'.op \notin {"reset_state", "reset"} =>
        /\ \A a \in Agents :
               IsPrefix(state[a].action_history, state'[a].action_history)
        /\ \A a, b \in Agents :
               (/\ state'[a].action_history # state[a].action_history
                /\ state'[b].action_history # state[b].action_history) => a = b
        /\ SumLen(state', Agents) <= SumLen(state, Agents) + 1]_vars

\* An agent's ledger holds three entries, failures and successes, while
\* another agent's holds none.
C15_Witness ==
    \E a, b \in Agents :
        /\ Len(state[a].action_history) = 3
        /\ state[a].failed_invocations >= 1
        /\ state[a].successful_invocations >= 1
        /\ state[b].action_history = <<>>

\* C16: run_async is interchangeable with run: on coordinators in the same
\* state, for the same start agent and the same responses of the
\* capabilities, it returns a Result with the same success, output,
\* agents_used and error as run.
C16_StreamEqualsSync ==
    (/\ pc = "done" /\ mode = "sync"
     /\ twin.pc = "done" /\ twin.mode = "async"
     /\ state = twin.state) =>
        /\ twin.result.success = result.success
        /\ twin.result.output = result.output
        /\ twin.result.agents_used = result.agents_used
        /\ twin.result.error = result.error

\* C17: in the parallel batch workflow no agent ledger, counter or other
\* mutable object is written by two units: the capability state a unit
\* writes is private to it.
C17_UnitsShareNothing ==
    \A o \in BatchObjects : Cardinality(batch.writers[o]) <= 1

\* The services of the entries of a list of tickets.
ServicesOf(entries) == {entries[i].service : i \in 1..Len(entries)}

\* The services the ticketing stage of a finished run went through.
Ticketed(q) ==
    IF q.pc = "done" /\ "tickets_created" \in DOMAIN q.result
    THEN IF q.create_tickets
         THEN {x \in q.found : AsksForTicket(q, x)}
         ELSE {}
    ELSE IF q.pc = "done" /\ q.result.success /\ q.create_tickets
    THEN {x \in q.found : AsksForTicket(q, x)}
    ELSE {}

\* The services a finished run reports under created, and under
\* skipped/duplicate.
UnderCreated(q) ==
    IF q.kind = "orchestrator"
    THEN ServicesOf(SelectSeq(q.tickets_created,
                              LAMBDA e : e.note \notin {KBNote, DuplicateNote}))
    ELSE ServicesOf(q.tickets_created)

UnderSkipped(q) ==
    IF q.kind = "orchestrator"
    THEN ServicesOf(SelectSeq(q.tickets_created,
                              LAMBDA e : e.note = DuplicateNote))
    ELSE ServicesOf(q.tickets_skipped)

\* C18: for every service that comes to the ticketing stage while the
\* backend holds an active ticket matching it, ticket-create is not called
\* in the run, and the service is recorded under skipped/duplicate and not
\* under created.
C18_NoTicketForDuplicate ==
    \A x \in Ticketed(pipe) \cap pipe.active :
        /\ x \notin pipe.calls.create
        /\ x \in UnderSkipped(pipe)
        /\ x \notin UnderCreated(pipe)

\* C19: a run whose fetch returns no log record returns a result with
\* success = true, no ticket created and a summary saying that no logs were
\* found, and has called neither the analysis nor the ticket search nor the
\* ticket creation.
C19_EmptyLogsShortCircuit ==
    (pipe.pc = "done" /\ pipe.calls.fetch = 1 /\ pipe.found = {}) =>
        /\ "success" \in DOMAIN pipe.result
        /\ pipe.result.success = TRUE
        /\ pipe.result.tickets.created = 0
        /\ pipe.result.summary.text = NoLogsSummary(pipe.kind)
        /\ pipe.calls.analysis = {}
        /\ pipe.calls.kb_search = {}
        /\ pipe.calls.active_search = {}
        /\ pipe.calls.create = {}

\* C20: the result of the orchestrator pipeline reports as many tickets
\* created as ticket-create calls completed successfully in the run.
C20_TicketsCreatedAreCreated ==
    (pipe.pc = "done" /\ pipe.kind = "orchestrator") =>
        Len(pipe.result.tickets_created) = Cardinality(pipe.calls.created)

\* C21: a stage that raises ends the run: nothing is searched, analyzed or
\* created after it, the tickets created before it stay created, and the
\* caller is told, by the exception or by a report with success = false and
\* the error.
C21_RaiseAbortsRun ==
    [][/\ pipe.failure # None =>
            /\ pipe' = pipe
            /\ \/ pipe.kind = "orchestrator" /\ pipe.pc = "raised"
               \/ /\ pipe.kind = "daily" /\ pipe.pc = "done"
                  /\ pipe.result.success = FALSE
                  /\ pipe.result.error # ""
       /\ pipe'.failure # None =>
            /\ pipe'.calls.created = pipe.calls.created
            /\ pipe'.tickets_created = pipe.tickets_created
            /\ \/ pipe'.kind = "orchestrator" /\ pipe'.pc = "raised"
               \/ /\ pipe'.kind = "daily" /\ pipe'.pc = "done"
                  /\ pipe'.result.success = FALSE
                  /\ pipe'.result.error # ""]_vars

\* A run that raised in the ticketing stage after it had created a ticket.
C21_Witness ==
    /\ pipe.failure = "tickets"
    /\ pipe.calls.created # {}
    /\ pipe.calls.create # pipe.calls.created

\* The services for which the KB search of the run found resolved tickets.
KBMatched(q) ==
    ServicesOf(SelectSeq(q.tickets_created, LAMBDA e : e.note = KBNote))

\* C22: a service for which the KB search found a resolved ticket is neither
\* analyzed nor searched for duplicates nor given a ticket in the run, and
\* the run goes on: the match is a skip, no stage fails on it.
C22_KBMatchSkipsService ==
    \A x \in KBMatched(pipe) :
        /\ x \in pipe.calls.kb_search
        /\ x \in pipe.resolved
        /\ x \notin pipe.calls.analysis
        /\ x \notin pipe.calls.active_search
        /\ x \notin pipe.calls.create
        /\ pipe.failure # "kb"
        /\ pipe.pc = "done" => x \in ServicesOf(pipe.result.tickets_created)

\* A finished run in which one service was skipped on its KB match and the
\* other was analyzed and given a ticket.
C22_Witness ==
    /\ pipe.pc = "done"
    /\ pipe.kind = "orchestrator"
    /\ KBMatched(pipe) # {}
    /\ pipe.calls.created # {}
    /\ pipe.calls.analysis = pipe.found \ KBMatched(pipe)

\* C23: ticket-create is called for a service only if the service was
\* analyzed and its severity is at or above the minimum: critical, high or
\* medium, or what min_severity_for_ticket says in the daily workflow. This
\* for the orchestrator, the daily workflow and ServiceProcessor.
C23_TicketOnlyAtMinimumSeverity ==
    /\ \A x \in pipe.calls.create :
        /\ x \in pipe.calls.analysis
        /\ pipe.analysis[x] \in Severities
        /\ SeverityOrder(pipe.analysis[x], 3) <= SeverityOrder(pipe.min_severity, 2)
    /\ \A u \in batch.ticketed :
        /\ batch.severity[u] \in Severities
        /\ SeverityOrder(batch.severity[u], 3) <= SeverityOrder("medium", 2)

\* A daily run with the minimum at high, where the service assessed high got
\* its ticket and the one assessed medium was analyzed and got none.
C23_Witness ==
    /\ pipe.pc = "done"
    /\ pipe.kind = "daily"
    /\ pipe.min_severity = "high"
    /\ \E x, y \in pipe.calls.analysis :
        /\ pipe.analysis[x] = "high" /\ x \in pipe.calls.create
        /\ pipe.analysis[y] = "medium" /\ y \notin pipe.calls.create

\* C24: a run of the orchestrator pipeline that reaches the report stage
\* appends one audit Action to the orchestrator's own ledger, after the
\* summary was built; a run in which a stage raises appends none; no run
\* appends more than one.
C24_OneAuditAction ==
    [][LET h == pipe.action_history
           g == pipe'.action_history
       IN /\ Len(g) <= 1
          /\ g # h =>
               /\ g = Append(h, AgentAction("full_workflow", TRUE, ""))
               /\ pipe.pc = "record"
               /\ pipe.result.summary.text = "## AIOps Workflow Summary"
               /\ pipe'.result = pipe.result
          /\ (/\ pipe'.pc = "done" /\ pipe'.kind = "orchestrator"
              /\ pipe'.result.summary.text = "## AIOps Workflow Summary") =>
               Len(g) = 1
          /\ pipe'.pc = "raised" => g = <<>>
          /\ pipe'.kind = "daily" => g = <<>>]_vars

\* A finished orchestrator run that created a ticket and recorded its audit
\* Action.
C24_Witness ==
    /\ pipe.pc = "done"
    /\ pipe.kind = "orchestrator"
    /\ pipe.calls.created # {}
    /\ Len(pipe.action_history) = 1

\* The call just made was a bound operation that failed: the client answered
\* with an error, the search raised, the upload failed.
FailedOperation(c) ==
    \/ c.op \in {"create_ticket", "update_ticket"} /\ c.answer \in {"error", "no updates"}
    \/ c.op = "search_tickets" /\ c.answer = "raises"
    \/ c.op = "upload_report" /\ c.answer \in {"error", "raises"}

\* C25: a failed bound operation leaves exactly one Action with
\* success = false in the ledger of the agent that ran it, and is handed back
\* to the caller as a value, an error dictionary or the empty list, without
\* raising.
C25_FailureRecordedNotRaised ==
    [][(ops' # ops /\ FailedOperation(ops'.call)) =>
          LET a == ops'.call.agent
              h == ops.state[a].action_history
              g == ops'.state[a].action_history
          IN /\ Len(g) = Len(h) + 1
             /\ IsPrefix(h, g)
             /\ g[Len(g)].success = FALSE
             /\ g[Len(g)].action_type = ops'.call.op
             /\ ~ops'.call.raised
             /\ ops'.call.returned \in {"error dict", "empty list"}]_vars

\* The ledgers the merged list of the journal was asked over.
MergedOver(j) ==
    {a \in MergeAgents : \E i \in 1..Len(MergeOrder(j.unit)) : MergeOrder(j.unit)[i] = a}

\* C26: the merged list holds every Action of every agent of the unit once,
\* is ordered by timestamp, and keeps Actions of equal timestamp in the order
\* in which they were recorded: it is the order of recording.
C26_MergedInRecordingOrder ==
    [][(journal'.ledgers = journal.ledgers /\ journal'.unit # None) =>
          LET m == journal'.merged
          IN /\ \A a \in MergedOver(journal') :
                  \A i \in 1..Len(journal.ledgers[a]) :
                      Cardinality({k \in 1..Len(m) :
                          /\ m[k].agent = a
                          /\ m[k].serial = journal.ledgers[a][i].serial}) = 1
             /\ \A k \in 1..Len(m) :
                  /\ m[k].agent \in MergedOver(journal')
                  /\ \E i \in 1..Len(journal.ledgers[m[k].agent]) :
                        journal.ledgers[m[k].agent][i].serial = m[k].serial
                  /\ \A l \in 1..Len(m) : m[l].serial = m[k].serial => l = k
             /\ \A k \in 1..Len(m) : \A l \in 1..Len(m) :
                  k < l => /\ m[k].timestamp <= m[l].timestamp
                           /\ m[k].serial < m[l].serial]_<<journal.unit, journal.merged>>

\* C27: a daily run in dry-run mode makes no ticket-create call, whatever the
\* severities, and reports every service that asks for a ticket with the
\* placeholder number DRY-RUN-XXXX and the dry_run flag.
C27_DryRunCreatesNothing ==
    (pipe.kind = "daily" /\ pipe.dry_run) =>
        /\ pipe.calls.create = {}
        /\ pipe.calls.created = {}
        /\ \A i \in 1..Len(pipe.tickets_created) :
              /\ pipe.tickets_created[i].ticket_number = <<"DRY-RUN-XXXX">>
              /\ pipe.tickets_created[i].note = "dry_run"
        /\ (pipe.pc = "done" /\ pipe.result.success) =>
              /\ ServicesOf(pipe.result.tickets.details) =
                    {x \in pipe.found : pipe.create_tickets /\ AsksForTicket(pipe, x)}
              /\ pipe.result.tickets.created = Len(pipe.result.tickets.details)
              /\ \A i \in 1..Len(pipe.result.tickets.details) :
                    pipe.result.tickets.details[i].ticket_number = <<"DRY-RUN-XXXX">>

\* A finished dry run over two services that both ask for a ticket.
C27_Witness ==
    /\ pipe.kind = "daily" /\ pipe.dry_run /\ pipe.pc = "done"
    /\ Len(pipe.tickets_created) = 2
    /\ \E x \in pipe.found : pipe.analysis[x] = "high"

\* C28: when all workers of the proactive workflow have finished, every agent
\* of the processor they share has len(action_history) = total_invocations =
\* successful_invocations + failed_invocations, and its ledger holds every
\* record_action call made on it: no update is lost.
C28_NoLostUpdate ==
    batch.pc = "done" =>
        \A o \in ProcessorAgents :
            LET st == batch.objects[o]
            IN /\ Len(st.action_history) = batch.calls[o]
               /\ Len(st.action_history) = st.total_invocations
               /\ st.total_invocations =
                      st.successful_invocations + st.failed_invocations

\* The results held for service u.
ResultsOf(q, u) == {i \in DOMAIN q.results : q.results[i].service_name = u}

\* C29: once _process_services_parallel has returned, results holds exactly
\* one ServiceResult for every affected service and none for any other,
\* successful exactly when its processing succeeded; and the report that run
\* builds has services.total = services.successful + services.failed = the
\* number of affected services.
C29_EachServiceOnce ==
    /\ batch.pc \in {"done", "reported"} =>
           /\ \A u \in Services :
                  Cardinality(ResultsOf(batch, u)) =
                      IF u \in batch.affected THEN 1 ELSE 0
           /\ \A i \in DOMAIN batch.results :
                  batch.results[i].success =
                      (batch.fate[batch.results[i].service_name] = "success")
    /\ (batch.pc = "reported" /\ batch.report.success) =>
           /\ batch.report.services.total = Cardinality(batch.affected)
           /\ batch.report.services.total =
                  batch.report.services.successful + batch.report.services.failed
           /\ batch.report.services.failed =
                  Cardinality({u \in batch.affected : batch.fate[u] # "success"})

\* A report over two services: one processed successfully, the other's
\* future raised.
C29_Witness ==
    /\ batch.pc = "reported"
    /\ batch.report.success
    /\ batch.affected = Services
    /\ \E u, v \in Services :
           batch.fate[u] = "success" /\ batch.fate[v] = "raised"

\* The entries a list holds for service x.
EntriesOf(entries, x) == {i \in DOMAIN entries : entries[i].service = x}

\* A run of the daily workflow that came to its report.
DailyReported(q) ==
    /\ q.kind = "daily"
    /\ q.pc = "done"
    /\ q.result.success
    /\ q.found # {}

\* C30: in the report of the daily workflow every analyzed service has
\* exactly one entry, in the created list or in the skipped list, and no
\* other service has any, so that total_created + total_skipped =
\* services_analyzed; a service whose ticket creation returned an error is
\* in skipped and not in created.
C30_EachServiceInOneList ==
    DailyReported(pipe) =>
        /\ \A x \in Services :
               Cardinality(EntriesOf(pipe.tickets_created, x))
                   + Cardinality(EntriesOf(pipe.tickets_skipped, x))
               = IF pipe.analysis[x] # None THEN 1 ELSE 0
        /\ pipe.result.tickets.created + pipe.result.tickets.skipped
               = pipe.result.analysis.services_analyzed
        /\ pipe.result.analysis.services_analyzed = Cardinality(pipe.found)
        /\ \A x \in pipe.calls.create \ pipe.calls.created :
               /\ x \in ServicesOf(pipe.tickets_skipped)
               /\ x \notin ServicesOf(pipe.tickets_created)

\* A report over two services: the ticket of one was created, the creation
\* of the other's returned an error.
C30_Witness ==
    /\ DailyReported(pipe)
    /\ pipe.calls.created # {}
    /\ pipe.calls.create \ pipe.calls.created # {}

============================================================================
